---------------------------- MODULE Spec2Model ----------------------------
(***************************************************************************)
(* A model of the CHM core: the domain-serial gravitational snow           *)
(* redistribution (snow_slide::run), the face-parallel, time-cached        *)
(* humidity regression (rh_from_obs::run), the face-parallel lapse-rate    *)
(* temperature (Dist_tlapse::run), the meteorological coordinator          *)
(* (metdata), the scheduler of the module graph and the erosion of the     *)
(* snow cover (SnowDrift::compSnowDrift).                                  *)
(*                                                                         *)
(* Doubles are modelled in fixed point: a length or a volume x is the      *)
(* integer x * Scale (micro-metres, micro-cubic-metres), a cosine c is the *)
(* integer c * CosScale.  Products and quotients are computed exactly and  *)
(* truncated once (MulDiv), which stands for the rounding of a double.     *)
(***************************************************************************)
EXTENDS Integers, Sequences, FiniteSets, TLC

(***************************************************************************)
(* Fixed-point arithmetic                                                  *)
(***************************************************************************)
Scale == 1000 * 1000          \* units per metre (per cubic metre)
CosScale == 1000              \* units of a cosine
Tolerance == Scale \div 10000 \* the 0.0001 of the mass balance check

Max(a, b) == IF a < b THEN b ELSE a   \* std::max(a, b)
Abs(a) == IF a < 0 THEN -a ELSE a     \* std::abs(a)

\* <<q, r>> with a * b = q * c + r and 0 <= r < c, for 0 <= a < c, b >= 0,
\* without forming a * b (doubles do not overflow where 32-bit integers do).
RECURSIVE MulDivRem(_, _, _)
MulDivRem(a, b, c) ==
    IF b = 0 THEN <<0, 0>>
    ELSE LET h == MulDivRem(a, b \div 2, c)
             r2 == 2 * h[2] + (IF b % 2 = 1 THEN a ELSE 0)
         IN  <<2 * h[1] + (r2 \div c), r2 % c>>

\* a * b / c for a, b >= 0 and c > 0, truncated
MulDiv(a, b, c) == (a \div c) * b + MulDivRem(a % c, b, c)[1]

\* the sum of F(s) over the finite set S
RECURSIVE SumOver(_, _)
SumOver(F(_), S) ==
    IF S = {} THEN 0
    ELSE LET s == CHOOSE x \in S : TRUE IN F(s) + SumOver(F, S \ {s})

(***************************************************************************)
(* The mesh: six triangles.  Faces 1 and 2 share an edge; 3 and 4 lie on   *)
(* the other two edges of 1, and 5 and 6 on the other two edges of 2.  A   *)
(* missing neighbour (the domain edge) is NULL.  Face 6 may be a ghost.    *)
(***************************************************************************)
NULL == 0
Faces == 1 .. 6
neighborTable ==
    <<  <<2, 3, 4>>, <<1, 5, 6>>, <<1, NULL, NULL>>,
        <<1, NULL, NULL>>, <<2, NULL, NULL>>, <<2, NULL, NULL>>  >>
neighbor(f, i) == neighborTable[f][i + 1]         \* face->neighbor(i)
areaTable == <<1, 2, 1, 1, 2, 1>>
get_area(f) == areaTable[f]                       \* face->get_area(), m^2
\* offsets (micro-metres) that keep centroid heights of different faces
\* apart, except for faces 1 and 3, which can have equal keys
zOffset == <<0, 200000, 0, 100000, 300000, 400000>>

MaxZLevel == 1      \* centroid heights are 0 .. MaxZLevel times ZStep
MaxDepthLevel == 1  \* snow depths are 0 .. MaxDepthLevel times DepthStep
ZStep == 6 * Scale
DepthStep == 5 * Scale
SweMmPerDepthUnit(d) == (3 * d) \div (10 * (Scale \div 1000))  \* 300 kg/m^3, in mm

VARIABLES
    \* read-only mesh and configuration
    cz,                 \* face->center().z()
    cosSlope,           \* cos(face->slope())
    is_ghost,           \* face->is_ghost
    use_vertical_snow,  \* cfg use_vertical_snow
    \* snow_slide::data of every face
    maxDepth_norm, maxDepth_vert,
    snowdepthavg_copy, snowdepthavg_vert_copy, swe_copy,
    delta_avalanche_snowdepth, delta_avalanche_mass,
    \* the variable store: (*face)["..."_s]
    vs_snowdepthavg, vs_swe,
    vs_delta_avalanche_snowdepth, vs_delta_avalanche_mass,
    \* snow_slide::run
    pc,                 \* "start", "loop", "done"
    sorted_z,           \* the sorted vector of faces
    idx,                \* the loop index i of line 106 (1-based)
    loc                 \* the locals of the iteration that ran last

meshVars == <<cz, cosSlope, is_ghost, use_vertical_snow, maxDepth_norm, maxDepth_vert>>
dataVars == <<snowdepthavg_copy, snowdepthavg_vert_copy, swe_copy,
              delta_avalanche_snowdepth, delta_avalanche_mass>>
storeVars == <<vs_snowdepthavg, vs_swe,
               vs_delta_avalanche_snowdepth, vs_delta_avalanche_mass>>
runVars == <<pc, sorted_z, idx, loc>>
slideVars == <<meshVars, dataVars, storeVars, runVars>>

VARIABLES
    posix_time,     \* global_param->posix_time()
    stn_z,          \* s->z() of every station
    stn_obs,        \* <<s->get("rh"), s->get("t")>> of every station
    last_update,    \* static ptime last_update
    lapse,          \* static double lapse
    face_rh,        \* the variable store: rh of every face
    todo,           \* the faces the scheduler has not handed out in this tick
    rh_done,        \* the faces whose run has returned in this tick
    wpc,            \* where each worker is: "idle", "check", "fit", "store", "interp"
    wface,          \* the face of each worker's run
    wc1,            \* each worker's local c1
    wpending,       \* each worker's stores of lines 67, 68 not yet visible
    fits,           \* how many fits (lines 50-66) ran in this tick
    raw_rh          \* the local rh of line 96 in the last run on each face

rhVars == <<posix_time, stn_z, stn_obs, last_update, lapse, face_rh, todo,
            rh_done, wpc, wface, wc1, wpending, fits, raw_rh>>

VARIABLES
    lapse_rate,         \* Dist_tlapse: the lapse rate in use, degrees C per m
    tl_stn_z,           \* s->z() of every station
    tl_stn_t,           \* s->get("t") of every station
    tl_in_radius,       \* get_stations_in_radius(x, y, radius) of every face
    tl_t,               \* the variable store: t of every face
    tl_t_lapse_rate,    \* the variable store: t_lapse_rate of every face
    tl_todo,            \* the faces the scheduler has not handed out in this tick
    tl_done,            \* the faces whose run has returned
    tl_failed,          \* the faces whose run has failed with insufficient-data
    tl_pc,              \* where each worker is: "idle", "run"
    tl_face             \* the face of each worker's run

tlVars == <<lapse_rate, tl_stn_z, tl_stn_t, tl_in_radius, tl_t, tl_t_lapse_rate,
            tl_todo, tl_done, tl_failed, tl_pc, tl_face>>

VARIABLES
    _start_time,        \* metdata: the start of the iteration window
    _end_time,          \* the end of the iteration window
    _current_ts,        \* the current timestamp
    _dt,                \* the timestep
    obs_start,          \* the first timestamp of every station's time series
    obs_end,            \* the last timestamp of every station's time series
    stn_now,            \* the timestamp whose values every station holds
    stn_filtered,       \* the filters have run on the station's current values
    md_pc,              \* the driver: "ready", "ticked", "ended"
    md_ret,             \* what the last next() returned
    md_sub,             \* the arguments of subset(), <<>> when it was not called
    md_ticks            \* the timestamps of the ticks executed, in order

metVars == <<_start_time, _end_time, _current_ts, _dt, obs_start, obs_end,
             stn_now, stn_filtered, md_pc, md_ret, md_sub, md_ticks>>

VARIABLES
    sc_cfg,             \* the scheduler: the module graph in use, "chm" or "s5"
    sc_decl,            \* the modules in the order of their declaration
    sc_batch,           \* the number of the batch being executed
    sc_status,          \* of every module on every face: "idle", "run", "done"
    sc_store,           \* the names present in the variable store of every face
    sc_log,             \* the modules in the order of their first start in the tick
    sc_tick             \* the number of the tick

schedVars == <<sc_cfg, sc_decl, sc_batch, sc_status, sc_store, sc_log, sc_tick>>

VARIABLES
    alpine3d,           \* SnowDrift: cfg ALPINE3D
    snow_redistribution, \* SnowDrift: cfg SNOW_REDISTRIBUTION
    snow_erosion,       \* SnowDrift: cfg SNOW_EROSION
    Xdata,              \* the SnowStation: Edata, SoilNode, ErosionMass, ...
    Mdata,              \* the CurrentMeteo: vw_drift
    Sdata,              \* the SurfaceFluxes: drift, mass[MS_WIND]
    forced_massErode,   \* the argument of compSnowDrift
    virtualFlux,        \* compMassFlux(...) * sn_dt / typical_slope_length
    nE,                 \* the local nE of compSnowDrift
    massErode,          \* the local massErode
    sd_pc,              \* "call", "loop", "done", "abort"
    sd_path,            \* the branch taken: "none", "return", "real", ...
    Xdata0,             \* history: the station at the call
    sd_taken,           \* history: the mass taken from the elements so far
    sd_iter,            \* history: the iterations of the erosion loop so far
    sd_low              \* history: the lowest index of Edata the loop read

driftVars == <<alpine3d, snow_redistribution, snow_erosion, Xdata, Mdata, Sdata,
               forced_massErode, virtualFlux, nE, massErode, sd_pc, sd_path,
               Xdata0, sd_taken, sd_iter, sd_low>>

engineVars == <<tlVars, metVars, schedVars, driftVars>>

vars == <<slideVars, rhVars, engineVars>>

\* the faces domain->face(i) enumerates: the faces this process owns
DomainFaces == {f \in Faces : ~is_ghost[f]}

\* std::max(0.001, cos(face->slope()))
CosFloor(f) == Max(1, cosSlope[f])
\* depth / std::max(0.001, cos(slope)): the vertical depth
Vertical(depth, c) == MulDiv(depth, CosScale, c)

\* init(): the holding depth of a face.  The power law a * slopeDeg^b is
\* tabulated for the two slopes of the model under a = 2.437, b = -0.3869:
\* 1 m on a flat face (slopeDeg clamped to 10), 0.5 m on a 60 degree face.
MaxDepthNorm(c) == IF c = CosScale THEN Scale ELSE Scale \div 2
MaxDepthVert(norm, c) == MulDiv(norm, Max(1, c), CosScale)

NoLocals == [face |-> NULL, excess |-> FALSE, edge_flag |-> FALSE, w_dem |-> 0,
             w |-> <<0, 0, 0>>, del_depth |-> 0, del_swe |-> 0,
             orig_mass |-> 0, out_mass |-> 0, routed |-> FALSE]

\* the state after init(): the mesh and configuration chosen, the store
\* holding the snow depths and water equivalents of the tick
InitSlideWith(zl, zo, steep, g, vertical, dl) ==
    /\ cz = [f \in Faces |->
               (IF f <= 2 THEN zl[f] ELSE zo) * ZStep + zOffset[f]]
    /\ cosSlope = [f \in Faces |->
                     IF f = 1 /\ steep THEN CosScale \div 2 ELSE CosScale]
    /\ is_ghost = [f \in Faces |-> f = 6 /\ g]
    /\ use_vertical_snow = vertical
    /\ maxDepth_norm = [f \in Faces |-> MaxDepthNorm(cosSlope[f])]
    /\ maxDepth_vert = [f \in Faces |-> MaxDepthVert(maxDepth_norm[f], cosSlope[f])]
    /\ vs_snowdepthavg = [f \in Faces |->
                            IF f <= 3 THEN dl[f] * DepthStep ELSE 0]
    /\ vs_swe = [f \in Faces |-> SweMmPerDepthUnit(vs_snowdepthavg[f])]
    /\ vs_delta_avalanche_snowdepth = [f \in Faces |-> 0]
    /\ vs_delta_avalanche_mass = [f \in Faces |-> 0]
    /\ snowdepthavg_copy = [f \in Faces |-> 0]
    /\ snowdepthavg_vert_copy = [f \in Faces |-> 0]
    /\ swe_copy = [f \in Faces |-> 0]
    /\ delta_avalanche_snowdepth = [f \in Faces |-> 0]
    /\ delta_avalanche_mass = [f \in Faces |-> 0]
    /\ pc = "start"
    /\ sorted_z = <<>>
    /\ idx = 1
    /\ loc = NoLocals

InitSlide ==
    \E zl \in [1 .. 2 -> 0 .. MaxZLevel], zo \in 0 .. MaxZLevel,
       steep \in BOOLEAN, g \in BOOLEAN, vertical \in BOOLEAN,
       dl \in [1 .. 3 -> 0 .. MaxDepthLevel] :
        InitSlideWith(zl, zo, steep, g, vertical, dl)

\* snow_slide is not part of the run
IdleSlide ==
    InitSlideWith([f \in 1 .. 2 |-> 0], 0, FALSE, FALSE, TRUE, [f \in 1 .. 3 |-> 0])

\* the key of the sort: center().z() + snowdepthavg / max(0.001, cos(slope))
z_key(f) == cz[f] + Vertical(vs_snowdepthavg[f], CosFloor(f))

\* b.first < a.first: a goes before b
SortBefore(ka, kb) == kb < ka

\* The results tbb::parallel_sort may give: every order of the faces in
\* which no face goes after a face it must go before.  The sort is not
\* stable and the comparator sees the keys alone.
RECURSIVE SortResults(_)
SortResults(S) ==
    IF S = {} THEN {<<>>}
    ELSE UNION { {<<f>> \o s : s \in SortResults(S \ {f})} :
                 f \in {g \in S : \A h \in S : ~SortBefore(z_key(h), z_key(g))} }

\* lines 76-104: the snapshot of every face, then the sort
Snapshot ==
    /\ pc = "start"
    /\ snowdepthavg_copy' = [f \in Faces |->
          IF f \in DomainFaces THEN vs_snowdepthavg[f] ELSE snowdepthavg_copy[f]]
    /\ snowdepthavg_vert_copy' = [f \in Faces |->
          IF f \in DomainFaces THEN Vertical(vs_snowdepthavg[f], CosFloor(f))
          ELSE snowdepthavg_vert_copy[f]]
    /\ swe_copy' = [f \in Faces |->
          IF f \in DomainFaces THEN vs_swe[f] * (Scale \div 1000) ELSE swe_copy[f]]
    /\ delta_avalanche_snowdepth' = [f \in Faces |->
          IF f \in DomainFaces THEN 0 ELSE delta_avalanche_snowdepth[f]]
    /\ delta_avalanche_mass' = [f \in Faces |->
          IF f \in DomainFaces THEN 0 ELSE delta_avalanche_mass[f]]
    /\ sorted_z' \in SortResults(DomainFaces)
    /\ idx' = 1
    /\ pc' = "loop"
    /\ loc' = NoLocals
    /\ UNCHANGED <<meshVars, storeVars, rhVars, engineVars>>


(***************************************************************************)
(* One iteration of the loop of line 106 over the sorted faces             *)
(***************************************************************************)
\* lines 112-120
MaxDepthOf(f) == IF use_vertical_snow THEN maxDepth_vert[f] ELSE maxDepth_norm[f]
\* line 126: the face holds more than it can
HasExcess(depth, maxDepth) == depth > maxDepth
\* line 128
DelDepth(depth, maxDepth) == depth - maxDepth
\* line 129: swe * (1 - maxDepth / snowdepthavg)
DelSwe(swe, depth, maxDepth) == MulDiv(swe, depth - maxDepth, depth)
\* lines 164, 215: swe * maxDepth / snowdepthavg
KeptSwe(swe, depth, maxDepth) == MulDiv(swe, maxDepth, depth)

\* lines 146, 190: n != nullptr && !n->is_ghost; a faulty variant forgets the ghosts
IsLocalFaceNoGhostTest(n) == n # NULL
IsLocalFace(n) == n # NULL /\ ~is_ghost[n]
\* line 146: slot n takes part in the weights
WeightNeighbor(n) == IsLocalFace(n)
\* line 190: slot n takes part in the routing
RouteNeighbor(n) == IsLocalFace(n)

\* faulty variants of line 150: the absolute height difference; the neighbour's
\* height as it was at the snapshot
HeightDiffAbs(z_s, n) == Abs(z_s - (cz[n] + snowdepthavg_vert_copy[n]))
HeightDiffAtSnapshot(z_s, n) == Max(0, z_s - z_key(n))
\* line 150: the height of the face above neighbour n, or 0
HeightDiff(z_s, n) == Max(0, z_s - (cz[n] + snowdepthavg_vert_copy[n]))
\* lines 142-155: the weight of slot i
Weight(f, z_s, i) ==
    IF WeightNeighbor(neighbor(f, i)) THEN HeightDiff(z_s, neighbor(f, i)) ELSE 0
\* line 153
EdgeFlag(f) == \E i \in 0 .. 2 : ~WeightNeighbor(neighbor(f, i))
\* faulty variant of line 175: the sink case is never taken
IsSinkNegativeOnly(w_dem) == w_dem < 0
\* line 175
IsSink(w_dem) == w_dem = 0

\* faulty variant of lines 180-183: the weights are normalised by the number of
\* neighbours, not by their sum
ShareByNeighbourCount(amount, w_j, w_dem, divisor) ==
    IF w_dem # 0 /\ w_j > 0 THEN amount \div (3 * divisor) ELSE 0
\* amount * w[j] with w[j] normalised by lines 180-183, over the area
\* divisor (1 for a volume): amount * (w_j / w_dem) / divisor
Share(amount, w_j, w_dem, divisor) ==
    IF w_dem # 0 THEN MulDiv(amount, w_j, w_dem * divisor) ELSE 0

\* line 203: the vertical depth of a neighbour after a deposit, computed
\* by face `f`, the face being processed
NeighborVertical(depth, f) == Vertical(depth, CosFloor(f))

\* lines 166-167 and 219-220: the face's own delta after one removal
Removed(delta, amount) == delta - amount

\* line 223: the mass balance check fails
MassBalanceFails(orig_mass, out_mass) == Abs(orig_mass - out_mass) > Tolerance

ProcessFace ==
    /\ pc = "loop"
    /\ idx <= Len(sorted_z)
    /\ LET face == sorted_z[idx]
           cen_area == get_area(face)
           maxDepth == MaxDepthOf(face)
           snowdepthavg == snowdepthavg_copy[face]
           snowdepthavg_vert == snowdepthavg_vert_copy[face]
           swe == swe_copy[face]
           excess == HasExcess(snowdepthavg, maxDepth)
           del_depth == IF excess THEN DelDepth(snowdepthavg, maxDepth) ELSE 0
           del_swe == IF excess THEN DelSwe(swe, snowdepthavg, maxDepth) ELSE 0
           orig_mass == del_swe * cen_area
           z_s == cz[face] + snowdepthavg_vert
           w == [i \in 1 .. 3 |-> IF excess THEN Weight(face, z_s, i - 1) ELSE 0]
           w_dem == w[1] + w[2] + w[3]
           edge_flag == excess /\ EdgeFlag(face)
           \* Case 1, lines 158-172
           edge == edge_flag
           \* line 175 was not taken: lines 180-220 run
           routed == excess /\ ~IsSink(w_dem)
           \* lines 188-211: what slot j puts on face g
           hit(g, j) == routed /\ neighbor(face, j) = g /\ RouteNeighbor(g)
           depthTo(g, j) == IF hit(g, j)
                            THEN Share(del_depth * cen_area, w[j + 1], w_dem, get_area(g))
                            ELSE 0
           sweTo(g, j) == IF hit(g, j)
                          THEN Share(del_swe * cen_area, w[j + 1], w_dem, get_area(g))
                          ELSE 0
           volumeTo(g, j) == IF hit(g, j)
                             THEN Share(del_depth * cen_area, w[j + 1], w_dem, 1)
                             ELSE 0
           massTo(g, j) == IF hit(g, j)
                           THEN Share(del_swe * cen_area, w[j + 1], w_dem, 1)
                           ELSE 0
           isTarget(g) == \E j \in 0 .. 2 : hit(g, j)
           out_mass == massTo(neighbor(face, 0), 0) + massTo(neighbor(face, 1), 1)
                         + massTo(neighbor(face, 2), 2)
           routedDepth == [g \in Faces |->
               snowdepthavg_copy[g] + depthTo(g, 0) + depthTo(g, 1) + depthTo(g, 2)]
           \* the number of removals from the face: lines 166-167, 219-220
           selfDepthDelta ==
               LET a == IF edge
                        THEN Removed(delta_avalanche_snowdepth[face], del_depth * cen_area)
                        ELSE delta_avalanche_snowdepth[face]
               IN  IF routed THEN Removed(a, del_depth * cen_area) ELSE a
           selfMassDelta ==
               LET a == IF edge
                        THEN Removed(delta_avalanche_mass[face], del_swe * cen_area)
                        ELSE delta_avalanche_mass[face]
               IN  IF routed THEN Removed(a, del_swe * cen_area) ELSE a
           \* lines 170-171 or 232-233 ran
           saved == ~excess \/ edge \/ routed
       IN  /\ snowdepthavg_copy' = [g \in Faces |->
                 IF g = face
                 THEN (IF edge \/ routed THEN maxDepth ELSE snowdepthavg_copy[g])
                 ELSE routedDepth[g]]
           /\ swe_copy' = [g \in Faces |->
                 IF g = face
                 THEN (IF edge \/ routed THEN KeptSwe(swe, snowdepthavg, maxDepth)
                       ELSE swe_copy[g])
                 ELSE swe_copy[g] + sweTo(g, 0) + sweTo(g, 1) + sweTo(g, 2)]
           /\ snowdepthavg_vert_copy' = [g \in Faces |->
                 IF g = face
                 THEN (IF routed THEN Vertical(maxDepth, CosFloor(face))
                       ELSE snowdepthavg_vert_copy[g])
                 ELSE IF isTarget(g) THEN NeighborVertical(routedDepth[g], face)
                 ELSE snowdepthavg_vert_copy[g]]
           /\ delta_avalanche_snowdepth' = [g \in Faces |->
                 IF g = face THEN selfDepthDelta
                 ELSE delta_avalanche_snowdepth[g]
                        + volumeTo(g, 0) + volumeTo(g, 1) + volumeTo(g, 2)]
           /\ delta_avalanche_mass' = [g \in Faces |->
                 IF g = face THEN selfMassDelta
                 ELSE delta_avalanche_mass[g]
                        + massTo(g, 0) + massTo(g, 1) + massTo(g, 2)]
           /\ vs_delta_avalanche_snowdepth' =
                 IF saved
                 THEN [vs_delta_avalanche_snowdepth EXCEPT ![face] = selfDepthDelta]
                 ELSE vs_delta_avalanche_snowdepth
           /\ vs_delta_avalanche_mass' =
                 IF saved
                 THEN [vs_delta_avalanche_mass EXCEPT ![face] = selfMassDelta]
                 ELSE vs_delta_avalanche_mass
           /\ loc' = [face |-> face, excess |-> excess, edge_flag |-> edge_flag,
                      w_dem |-> w_dem, w |-> <<w[1], w[2], w[3]>>,
                      del_depth |-> del_depth, del_swe |-> del_swe,
                      orig_mass |-> orig_mass, out_mass |-> out_mass,
                      routed |-> routed]
    /\ idx' = idx + 1
    /\ UNCHANGED <<meshVars, vs_snowdepthavg, vs_swe, pc, sorted_z, rhVars, engineVars>>

\* line 235: the loop is over
EndRun ==
    /\ pc = "loop"
    /\ idx > Len(sorted_z)
    /\ pc' = "done"
    /\ UNCHANGED <<meshVars, dataVars, storeVars, sorted_z, idx, loc, rhVars, engineVars>>

NextSlide == Snapshot \/ ProcessFace \/ EndRun

(***************************************************************************)
(* rh_from_obs: a face-parallel module.  The workers of the scheduler run  *)
(* run(face) on different faces at the same time; last_update and lapse    *)
(* are function-local statics, shared by all of them and not synchronised. *)
(*                                                                         *)
(* A double that may be a NaN is a record: [nan |-> TRUE] or a number.     *)
(* Vapour pressures are in Pa, elevations in m, a lapse in Pa/m times      *)
(* LapseScale, temperatures in degrees C, humidities in percent.           *)
(***************************************************************************)
LapseScale == 100
Num(x) == [nan |-> FALSE, v |-> x]
NaN == [nan |-> TRUE, v |-> 0]

\* a + b, a * b, a / b of doubles; k is an exact integer factor or divisor
DAddInt(a, k) == IF a.nan THEN NaN ELSE Num(a.v + k)
DAdd(a, b) == IF a.nan \/ b.nan THEN NaN ELSE Num(a.v + b.v)
DMulInt(a, k) == IF a.nan THEN NaN ELSE Num(a.v * k)
DDivInt(a, k) == IF a.nan THEN NaN ELSE Num(a.v \div k)
\* a < b of doubles: false when either is a NaN
DLess(a, b) == ~a.nan /\ ~b.nan /\ a.v < b.v
\* std::min(a, b) is (b < a) ? b : a, std::max(a, b) is (a < b) ? b : a
StdMin(a, b) == IF DLess(b, a) THEN b ELSE a
StdMax(a, b) == IF DLess(a, b) THEN b ELSE a

Stations == 1 .. 2
RhFaces == 1 .. 2
Workers == 1 .. 2
MaxTime == 2        \* the simulation runs the timestamps 1 .. MaxTime
NotADateTime == 0   \* a default-constructed ptime

\* the observations a timestamp can bring: <<rh, t>> of each station
MetProfiles ==
    <<  << <<50, 10>>, <<50, 10>> >>,
        << <<100, 10>>, <<50, -10>> >>,
        << <<5, -10>>, <<100, 10>> >>  >>
\* s->z(): the second station is 1000 m above the first, or beside it
StationZ(same) == IF same THEN <<0, 0>> ELSE <<0, 1000>>
\* elem->get_z() and elem->face_data("t")
faceZ == <<500, 2000>>
faceT == <<10, -10>>

\* lines 17-35: the Magnus formula, tabulated at the temperatures of the model
EsWater(TA) == CASE TA = 0 -> 611 [] TA = 10 -> 1228 [] OTHER -> 2339
EsIce(TA) == CASE TA = -10 -> 260 [] OTHER -> 103
Tfreeze == 0
esat(TA) == IF TA >= Tfreeze THEN EsWater(TA) ELSE EsIce(TA)

\* lines 52-55 and 74-77: ea = rh / 100 * esat(t) of station s
StationEa(s) == (stn_obs[s][1] * esat(stn_obs[s][2])) \div 100

\* gsl_fit_linear, c1: the slope sum(dx * dy) / sum(dx * dx) of ea against z
\* over the stations; 0 / 0, a NaN, when all stations have one elevation
FitLinearC1 ==
    LET n == Cardinality(Stations)
        X(s) == stn_z[s]
        Y(s) == StationEa(s)
        XY(s) == X(s) * Y(s)
        XX(s) == X(s) * X(s)
        sxy == n * SumOver(XY, Stations) - SumOver(X, Stations) * SumOver(Y, Stations)
        sxx == n * SumOver(XX, Stations) - SumOver(X, Stations) * SumOver(X, Stations)
    IN  IF sxx = 0 THEN NaN ELSE Num((sxy * LapseScale) \div sxx)

\* line 48: the cached lapse is of another timestamp
NeedsFit(last, now) == last # now

\* line 79: ea + lapse * (0.0 - z)
Lowered(s, l) == DAddInt(DDivInt(DMulInt(l, 0 - stn_z[s]), LapseScale), StationEa(s))

\* thin_plate_spline: a scalar from the lowered station values; the value
\* at a station, or the mean of all of them
Interpolated(l) ==
    {Lowered(s, l) : s \in Stations}
      \cup {DDivInt(DAdd(Lowered(1, l), Lowered(2, l)), 2)}

\* line 93: ea + lapse * (elem->get_z() - 0.0)
Raised(ea, l, f) == DAdd(ea, DDivInt(DMulInt(l, faceZ[f] - 0), LapseScale))
\* lines 95-96: ea / esat(t) * 100
RhOf(ea, f) == DDivInt(DMulInt(ea, 100), esat(faceT[f]))
\* line 98
ClampHigh(rh) == StdMin(rh, Num(100))
\* faulty variant of line 99: the arguments of std::max the other way round
ClampLowArgumentsSwapped(rh) == StdMax(rh, Num(10))
\* line 99
ClampLow(rh) == StdMax(Num(10), rh)

InitRhWith(same, p) ==
    /\ posix_time = 1
    /\ stn_z = StationZ(same)
    /\ stn_obs = MetProfiles[p]
    /\ last_update = NotADateTime
    /\ lapse = Num(-999 * LapseScale)
    /\ face_rh = [f \in RhFaces |-> NaN]
    /\ todo = RhFaces
    /\ rh_done = {}
    /\ wpc = [w \in Workers |-> "idle"]
    /\ wface = [w \in Workers |-> 1]
    /\ wc1 = [w \in Workers |-> Num(0)]
    /\ wpending = [w \in Workers |-> {}]
    /\ fits = 0
    /\ raw_rh = [f \in RhFaces |-> NaN]

InitRh == \E same \in BOOLEAN, p \in DOMAIN MetProfiles : InitRhWith(same, p)

\* rh_from_obs is not part of the run
IdleRh == InitRhWith(FALSE, 1)

\* the scheduler hands face f to worker w: run(face) starts
StartRun(w) ==
    /\ wpc[w] = "idle"
    /\ \E f \in todo :
         /\ todo' = todo \ {f}
         /\ wface' = [wface EXCEPT ![w] = f]
    /\ wpc' = [wpc EXCEPT ![w] = "check"]
    /\ UNCHANGED <<posix_time, stn_z, stn_obs, last_update, lapse, face_rh,
                   rh_done, wc1, wpending, fits,
                   raw_rh, slideVars, engineVars>>

\* line 48
CheckCache(w) ==
    /\ wpc[w] = "check"
    /\ wpc' = [wpc EXCEPT ![w] =
                 IF NeedsFit(last_update, posix_time) THEN "fit" ELSE "interp"]
    /\ UNCHANGED <<posix_time, stn_z, stn_obs, last_update, lapse, face_rh,
                   todo, rh_done, wface, wc1, wpending, fits,
                   raw_rh, slideVars, engineVars>>

\* lines 50-66: the fit
Fit(w) ==
    /\ wpc[w] = "fit"
    /\ wc1' = [wc1 EXCEPT ![w] = FitLinearC1]
    /\ fits' = fits + 1
    /\ wpending' = [wpending EXCEPT ![w] = {"lapse", "last_update"}]
    /\ wpc' = [wpc EXCEPT ![w] = "store"]
    /\ UNCHANGED <<posix_time, stn_z, stn_obs, last_update, lapse, face_rh,
                   todo, rh_done, wface,
                   raw_rh, slideVars, engineVars>>

\* lines 67, 68: the two unsynchronised stores become visible to the other
\* workers one at a time, in either order
Store(w) ==
    /\ wpc[w] = "store"
    /\ \E v \in wpending[w] :
         /\ wpending' = [wpending EXCEPT ![w] = @ \ {v}]
         /\ lapse' = IF v = "lapse" THEN wc1[w] ELSE lapse
         /\ last_update' = IF v = "last_update" THEN posix_time ELSE last_update
         /\ wpc' = [wpc EXCEPT ![w] = IF wpending[w] = {v} THEN "interp" ELSE "store"]
    /\ UNCHANGED <<posix_time, stn_z, stn_obs, face_rh, todo, rh_done, wface,
                   wc1, fits,
                   raw_rh, slideVars, engineVars>>

\* the lapse a worker reads in lines 79, 93: its own store, or the static
ReadLapse(w) == IF "lapse" \in wpending[w] THEN wc1[w] ELSE lapse

\* lines 71-101
Interpolate(w) ==
    /\ wpc[w] = "interp"
    /\ \E ea0 \in Interpolated(ReadLapse(w)) :
         LET f == wface[w]
             ea == Raised(ea0, ReadLapse(w), f)
             rh == ClampLow(ClampHigh(RhOf(ea, f)))
         IN  /\ face_rh' = [face_rh EXCEPT ![f] = rh]
             /\ raw_rh' = [raw_rh EXCEPT ![f] = RhOf(ea, f)]
    /\ rh_done' = rh_done \cup {wface[w]}
    /\ wpc' = [wpc EXCEPT ![w] = "idle"]
    /\ UNCHANGED <<posix_time, stn_z, stn_obs, last_update, lapse, todo, wface,
                   wc1, wpending, fits,
                   slideVars, engineVars>>

\* a faulty variant of the driver: next() is called once the last face has
\* been handed out, while the runs of the tick may still be executing
NextTimestampBeforeRunsEnd ==
    /\ todo = {}
    /\ posix_time < MaxTime
    /\ posix_time' = posix_time + 1
    /\ \E p \in DOMAIN MetProfiles : stn_obs' = MetProfiles[p]
    /\ todo' = RhFaces
    /\ rh_done' = {}
    /\ fits' = 0
    /\ UNCHANGED <<stn_z, last_update, lapse, face_rh, wpc, wface, wc1, wpending,
                   raw_rh, slideVars, engineVars>>

\* the driver: every face has run; metdata::next() brings the next timestamp
NextTimestamp ==
    /\ todo = {}
    /\ \A w \in Workers : wpc[w] = "idle"
    /\ posix_time < MaxTime
    /\ posix_time' = posix_time + 1
    /\ \E p \in DOMAIN MetProfiles : stn_obs' = MetProfiles[p]
    /\ todo' = RhFaces
    /\ rh_done' = {}
    /\ fits' = 0
    /\ UNCHANGED <<stn_z, last_update, lapse, face_rh, wpc, wface, wc1, wpending,
                   raw_rh, slideVars, engineVars>>

NextRh ==
    \/ \E w \in Workers : StartRun(w)
    \/ \E w \in Workers : CheckCache(w)
    \/ \E w \in Workers : Fit(w)
    \/ \E w \in Workers : Store(w)
    \/ \E w \in Workers : Interpolate(w)
    \/ NextTimestamp

(***************************************************************************)
(* Dist_tlapse: a face-parallel module.  run(face) lifts the temperature   *)
(* of the stations around the face to sea level, interpolates, and lowers  *)
(* the result to the face.  Temperatures are in milli-degrees C, a lapse   *)
(* rate in milli-degrees C per metre, elevations in metres.  A double is a *)
(* record: a number, a NaN or an infinity; a cell of the variable store    *)
(* that was never written is Unset.                                        *)
(***************************************************************************)
MilliDeg == 1000
TNum(x) == [kind |-> "num", v |-> x]
TNaN == [kind |-> "nan", v |-> 0]
TInf == [kind |-> "inf", v |-> 0]
Unset == [kind |-> "unset", v |-> 0]
\* a + k of a double and an exact number
TAddInt(a, k) == IF a.kind = "num" THEN TNum(a.v + k) ELSE a

TlFaces == 1 .. 2
tlFaceZ == <<100, 200>>             \* face->get_z()
LapseRates == {0, 5}                \* 0 and 0.005 degrees C per metre
StationTemps == {TNum(10 * MilliDeg), TNum(4 * MilliDeg), TNaN, TInf}
TlStationZ == <<0, 1000>>
DefaultLapse == 5                   \* line 33, lapse_rate=0.0047, rounded

\* is_nan(x): the value is not usable
is_nan(x) == x.kind # "num"
\* faulty variant of lines 44-45: no station is skipped
UsableAlways(s) == TRUE
\* lines 44-45: a station whose t is_nan is skipped
Usable(s) == ~is_nan(tl_stn_t[s])
\* faulty variant of line 46: the elevation difference the other way round
LiftStationSignSlip(s) == TAddInt(tl_stn_t[s], 0 - lapse_rate * (tl_stn_z[s] - 0))
\* line 46: s->get("t") - lapse_rate * (0.0 - s->z())
LiftStation(s) == TAddInt(tl_stn_t[s], 0 - lapse_rate * (0 - tl_stn_z[s]))
\* lines 41-48: the stations whose lifted value goes into lowered_values
LoweredValues(f) == {s \in tl_in_radius[f] : Usable(s)}

\* the interpolator refuses an empty list of samples: insufficient-data
InterpFails(S) == S = {}
\* the interpolator: a scalar from the samples; the value of one of them or
\* their mean, a NaN when a sample is not finite
TlInterpolated(S) ==
    IF \E s \in S : LiftStation(s).kind # "num" THEN {TNaN}
    ELSE {LiftStation(s) : s \in S}
           \cup {TNum(SumOver(LAMBDA s : LiftStation(s).v, S) \div Cardinality(S))}

\* faulty variant of line 55: the lapse rate of line 33 instead of lapse_rate
LowerToFaceDefaultLapse(value, f) == TAddInt(value, DefaultLapse * (0 - tlFaceZ[f]))
\* line 55: value + lapse_rate * (0.0 - face->get_z())
LowerToFace(value, f) == TAddInt(value, lapse_rate * (0 - tlFaceZ[f]))

InitTlapseWith(g, temps, radius, before) ==
    /\ lapse_rate = g
    /\ tl_stn_z = TlStationZ
    /\ tl_stn_t = temps
    /\ tl_in_radius = radius
    /\ tl_t = [f \in TlFaces |-> before]
    /\ tl_t_lapse_rate = [f \in TlFaces |-> before]
    /\ tl_todo = TlFaces
    /\ tl_done = {}
    /\ tl_failed = {}
    /\ tl_pc = [w \in Workers |-> "idle"]
    /\ tl_face = [w \in Workers |-> 1]

\* the store is empty, or holds the values of an earlier tick
InitTlapse ==
    \E g \in LapseRates, temps \in [Stations -> StationTemps],
       radius \in [TlFaces -> SUBSET Stations], before \in {Unset, TNum(0)} :
        InitTlapseWith(g, temps, radius, before)

\* Dist_tlapse is not part of the run
IdleTlapse ==
    InitTlapseWith(0, [s \in Stations |-> TNum(0)], [f \in TlFaces |-> {}], Unset)

\* the scheduler hands face f to worker w; a failed run has aborted the tick
TlStart(w) ==
    /\ tl_pc[w] = "idle"
    /\ tl_failed = {}
    /\ \E f \in tl_todo :
         /\ tl_todo' = tl_todo \ {f}
         /\ tl_face' = [tl_face EXCEPT ![w] = f]
    /\ tl_pc' = [tl_pc EXCEPT ![w] = "run"]
    /\ UNCHANGED <<lapse_rate, tl_stn_z, tl_stn_t, tl_in_radius, tl_t,
                   tl_t_lapse_rate, tl_done, tl_failed, slideVars, rhVars, metVars, schedVars, driftVars>>

\* lines 30-61: run(face)
TlRun(w) ==
    /\ tl_pc[w] = "run"
    /\ LET f == tl_face[w]
           S == LoweredValues(f)
       IN  IF InterpFails(S)
           THEN /\ tl_failed' = tl_failed \cup {f}
                /\ UNCHANGED <<tl_t, tl_t_lapse_rate, tl_done>>
           ELSE /\ \E value \in TlInterpolated(S) :
                     tl_t' = [tl_t EXCEPT ![f] = LowerToFace(value, f)]
                /\ tl_t_lapse_rate' = [tl_t_lapse_rate EXCEPT ![f] = TNum(lapse_rate)]
                /\ tl_done' = tl_done \cup {f}
                /\ UNCHANGED tl_failed
    /\ tl_pc' = [tl_pc EXCEPT ![w] = "idle"]
    /\ UNCHANGED <<lapse_rate, tl_stn_z, tl_stn_t, tl_in_radius, tl_todo, tl_face,
                   slideVars, rhVars, metVars, schedVars, driftVars>>

NextTlapse ==
    \/ \E w \in Workers : TlStart(w)
    \/ \E w \in Workers : TlRun(w)

(***************************************************************************)
(* metdata: the meteorological coordinator on the ascii backend, and the   *)
(* loop of the driver around it.  A timestamp is a number of time units; a *)
(* day is Day units; the time series of station i has a row at every       *)
(* multiple of _dt from obs_start[i] to obs_end[i].                        *)
(***************************************************************************)
MaxStamp == 8       \* the time series end at or before MaxStamp
Day == 2
MdStations == 1 .. 2
Missing == 0 - 1    \* a station was filled from a row its series does not have
Steps == {1, 2}     \* the timesteps of the model

\* the timestamps of the rows a series of timestep d can have
Grid(d) == {t \in 0 .. MaxStamp : t % d = 0}
\* the last two rows a series can end at
LateRows(d) == {t \in Grid(d) : t + 2 * d > MaxStamp}

\* faulty variant of find_unified_start_end: the earliest start, the latest end
find_unified_start_end_widest(starts, ends) ==
    <<CHOOSE t \in {starts[i] : i \in MdStations} :
          \A i \in MdStations : t <= starts[i],
      CHOOSE t \in {ends[i] : i \in MdStations} :
          \A i \in MdStations : ends[i] <= t>>
\* find_unified_start_end(): the latest start and the earliest end
find_unified_start_end(starts, ends) ==
    <<CHOOSE t \in {starts[i] : i \in MdStations} :
          \A i \in MdStations : starts[i] <= t,
      CHOOSE t \in {ends[i] : i \in MdStations} :
          \A i \in MdStations : t <= ends[i]>>

\* the timestamp of the row station i is filled from at time t
RowAt(i, t) == IF obs_start[i] <= t /\ t <= obs_end[i] THEN t ELSE Missing

\* faulty variant of the test of next(): one step past the end
HasNextPastEnd(current, d, end) == current <= end
\* next(): there is a timestep left
HasNext(current, d, end) == current + d <= end

\* load_from_ascii(): the series are loaded, the window is the unified one,
\* the stations hold the rows of its start
InitMetWith(d, starts, ends) ==
    /\ _dt = d
    /\ obs_start = starts
    /\ obs_end = ends
    /\ _start_time = find_unified_start_end(starts, ends)[1]
    /\ _end_time = find_unified_start_end(starts, ends)[2]
    /\ _current_ts = find_unified_start_end(starts, ends)[1]
    /\ stn_now = [i \in MdStations |->
                    IF starts[i] <= find_unified_start_end(starts, ends)[1]
                       /\ find_unified_start_end(starts, ends)[1] <= ends[i]
                    THEN find_unified_start_end(starts, ends)[1] ELSE Missing]
    /\ stn_filtered = [i \in MdStations |-> TRUE]
    /\ md_pc = "ready"
    /\ md_ret = TRUE
    /\ md_sub = <<>>
    /\ md_ticks = <<>>

InitMet ==
    \E d \in Steps :
      \E starts \in [MdStations -> {0, d}], ends \in [MdStations -> LateRows(d)] :
        InitMetWith(d, starts, ends)

\* the coordinator is not part of the run
IdleMet == InitMetWith(1, [i \in MdStations |-> 0], [i \in MdStations |-> 0])

\* faulty variant of subset(): the current timestamp stays where it was
CurrentAfterSubsetKept(s, current) == current
\* subset(): resets the current timestamp to the start of the window
CurrentAfterSubset(s, current) == s

\* subset(start, end), called before the first tick and the first next()
subset(s, e) ==
    /\ md_pc = "ready"
    /\ md_ticks = <<>>
    /\ md_sub = <<>>
    /\ _start_time' = s
    /\ _end_time' = e
    /\ _current_ts' = CurrentAfterSubset(s, _current_ts)
    /\ stn_now' = [i \in MdStations |-> RowAt(i, CurrentAfterSubset(s, _current_ts))]
    /\ stn_filtered' = [i \in MdStations |-> TRUE]
    /\ md_sub' = <<s, e>>
    /\ UNCHANGED <<_dt, obs_start, obs_end, md_pc, md_ret, md_ticks,
                   slideVars, rhVars, tlVars, schedVars, driftVars>>

\* the driver executes the tick of the current timestamp
RunTick ==
    /\ md_pc = "ready"
    /\ md_ticks' = Append(md_ticks, _current_ts)
    /\ md_pc' = "ticked"
    /\ UNCHANGED <<_start_time, _end_time, _current_ts, _dt, obs_start, obs_end,
                   stn_now, stn_filtered, md_ret, md_sub, slideVars, rhVars, tlVars, schedVars, driftVars>>

\* next(): advance by _dt and refill every station, or return false
next ==
    /\ md_pc = "ticked"
    /\ IF HasNext(_current_ts, _dt, _end_time)
       THEN /\ _current_ts' = _current_ts + _dt
            /\ stn_now' = [i \in MdStations |-> RowAt(i, _current_ts + _dt)]
            /\ stn_filtered' = [i \in MdStations |-> TRUE]
            /\ md_ret' = TRUE
            /\ md_pc' = "ready"
       ELSE /\ md_ret' = FALSE
            /\ md_pc' = "ended"
            /\ UNCHANGED <<_current_ts, stn_now, stn_filtered>>
    /\ UNCHANGED <<_start_time, _end_time, _dt, obs_start, obs_end, md_sub,
                   md_ticks, slideVars, rhVars, tlVars, schedVars, driftVars>>

NextMet ==
    \/ \E s, e \in Grid(_dt) :
         /\ _start_time <= s /\ s <= e /\ e <= _end_time
         /\ subset(s, e)
    \/ RunTick
    \/ next

(***************************************************************************)
(* The module graph and the scheduler.  A module is known by its rank in   *)
(* the alphabetical order of the module names, which breaks the ties of    *)
(* the topological sort.  The descriptors are what the constructors of the *)
(* modules declare.                                                        *)
(***************************************************************************)
ScFaces == 1 .. 2

\* Dist_tlapse::Dist_tlapse
Dist_tlapse_module ==
    [name |-> "Dist_tlapse", parallel |-> "data",
     provides |-> {"t", "t_lapse_rate"},
     depends |-> {},
     depends_from_met |-> {"t", "t_lapse_rate"}]
\* faulty variant of rh_from_obs::rh_from_obs: depends("t") is missing
rh_from_obs_module_without_depends ==
    [name |-> "rh_from_obs", parallel |-> "data",
     provides |-> {"rh"},
     depends |-> {},
     depends_from_met |-> {"rh", "t"}]
\* rh_from_obs::rh_from_obs
rh_from_obs_module ==
    [name |-> "rh_from_obs", parallel |-> "data",
     provides |-> {"rh"},
     depends |-> {"t"},
     depends_from_met |-> {"rh", "t"}]
\* faulty variant of snow_slide::snow_slide: face-parallel
snow_slide_module_face_parallel ==
    [name |-> "snow_slide", parallel |-> "data",
     provides |-> {"delta_avalanche_mass", "delta_avalanche_snowdepth", "maxDepth"},
     depends |-> {"snowdepthavg", "swe"},
     depends_from_met |-> {}]
\* faulty variant of snow_slide::snow_slide: the depends are missing
snow_slide_module_without_depends ==
    [name |-> "snow_slide", parallel |-> "domain",
     provides |-> {"delta_avalanche_mass", "delta_avalanche_snowdepth", "maxDepth"},
     depends |-> {},
     depends_from_met |-> {}]
\* snow_slide::snow_slide
snow_slide_module ==
    [name |-> "snow_slide", parallel |-> "domain",
     provides |-> {"delta_avalanche_mass", "delta_avalanche_snowdepth", "maxDepth"},
     depends |-> {"snowdepthavg", "swe"},
     depends_from_met |-> {}]
\* the snow model that provides the names snow_slide depends on
snowpack_module ==
    [name |-> "snowpack", parallel |-> "data",
     provides |-> {"snowdepthavg", "swe"},
     depends |-> {},
     depends_from_met |-> {}]

\* the modules of the model, in the order of their names
ChmModules ==
    <<Dist_tlapse_module, rh_from_obs_module, snow_slide_module, snowpack_module>>
\* A provides x; B depends x and provides y; C depends x and y
S5Modules ==
    << [name |-> "A", parallel |-> "data", provides |-> {"x"}, depends |-> {},
        depends_from_met |-> {}],
       [name |-> "B", parallel |-> "data", provides |-> {"y"}, depends |-> {"x"},
        depends_from_met |-> {}],
       [name |-> "C", parallel |-> "data", provides |-> {}, depends |-> {"x", "y"},
        depends_from_met |-> {}] >>
ModuleTable == IF sc_cfg = "chm" THEN ChmModules ELSE S5Modules
Modules == DOMAIN ModuleTable

\* an edge u -> v of the module graph: v depends on a name u provides
Edge(u, v) == ModuleTable[u].provides \cap ModuleTable[v].depends # {}

DeclarationOrders(n) ==
    {q \in [1 .. n -> 1 .. n] : \A i, j \in 1 .. n : q[i] = q[j] => i = j}

\* the topological sort: of the modules whose providers are all placed,
\* the first by name comes next
RECURSIVE TopoFrom(_, _)
TopoFrom(placed, rest) ==
    IF rest = {} THEN placed
    ELSE LET done == {placed[k] : k \in DOMAIN placed}
             ready == {m \in rest : \A u \in Modules : Edge(u, m) => u \in done}
             m == CHOOSE x \in ready : \A o \in ready : x <= o
         IN  TopoFrom(Append(placed, m), rest \ {m})
TopoOrder == TopoFrom(<<>>, Modules)

\* the batch of each position of the topological order: a batch is a
\* maximal contiguous run of mutually independent face-parallel modules,
\* a domain-serial module is a batch of its own
RECURSIVE BatchNumbers(_, _)
BatchNumbers(order, k) ==
    IF k = 0 THEN <<>>
    ELSE IF k = 1 THEN <<1>>
    ELSE LET prev == BatchNumbers(order, k - 1)
             cur == prev[k - 1]
             members == {order[j] : j \in {i \in 1 .. k - 1 : prev[i] = cur}}
             joins == /\ ModuleTable[order[k]].parallel = "data"
                      /\ \A u \in members :
                           /\ ModuleTable[u].parallel = "data"
                           /\ ~Edge(u, order[k])
         IN  Append(prev, IF joins THEN cur ELSE cur + 1)
BatchOf(m) ==
    LET k == CHOOSE i \in DOMAIN TopoOrder : TopoOrder[i] = m
    IN  BatchNumbers(TopoOrder, Len(TopoOrder))[k]
LastBatch == BatchNumbers(TopoOrder, Len(TopoOrder))[Len(TopoOrder)]
\* the modules of the batch that are declared before m
DeclaredBefore(m) ==
    {u \in Modules : BatchOf(u) = BatchOf(m) /\
        (CHOOSE i \in DOMAIN sc_decl : sc_decl[i] = u)
          < (CHOOSE i \in DOMAIN sc_decl : sc_decl[i] = m)}
Running == {<<m, f>> \in Modules \X ScFaces : sc_status[m][f] = "run"}

InitSchedWith(cfg, decl) ==
    /\ sc_cfg = cfg
    /\ sc_decl = decl
    /\ sc_batch = 1
    /\ sc_status = [m \in 1 .. Len(decl) |-> [f \in ScFaces |-> "idle"]]
    /\ sc_store = [f \in ScFaces |-> {}]
    /\ sc_log = <<>>
    /\ sc_tick = 1

InitSched ==
    \/ \E decl \in DeclarationOrders(Len(ChmModules)) : InitSchedWith("chm", decl)
    \/ \E decl \in DeclarationOrders(Len(S5Modules)) : InitSchedWith("s5", decl)

\* the scheduler is not part of the run
IdleSched == InitSchedWith("s5", <<1, 2, 3>>)

\* a worker calls run(face) of the face-parallel module m
ScStart(m, f) ==
    /\ BatchOf(m) = sc_batch
    /\ ModuleTable[m].parallel = "data"
    /\ sc_status[m][f] = "idle"
    /\ \A u \in DeclaredBefore(m) : sc_status[u][f] = "done"
    /\ \A u \in Modules : sc_status[u][f] # "run"
    /\ Cardinality(Running) < Cardinality(Workers)
    /\ sc_status' = [sc_status EXCEPT ![m][f] = "run"]
    /\ sc_log' = IF \E k \in DOMAIN sc_log : sc_log[k] = m
                 THEN sc_log ELSE Append(sc_log, m)
    /\ UNCHANGED <<sc_cfg, sc_decl, sc_batch, sc_store, sc_tick,
                   slideVars, rhVars, tlVars, metVars, driftVars>>

\* run(face) of m returns: the names it provides are in the row of the face
ScFinish(m, f) ==
    /\ ModuleTable[m].parallel = "data"
    /\ sc_status[m][f] = "run"
    /\ sc_status' = [sc_status EXCEPT ![m][f] = "done"]
    /\ sc_store' = [sc_store EXCEPT ![f] = @ \cup ModuleTable[m].provides]
    /\ UNCHANGED <<sc_cfg, sc_decl, sc_batch, sc_log, sc_tick,
                   slideVars, rhVars, tlVars, metVars, driftVars>>

\* the scheduler calls run(domain) of the domain-serial module m
ScStartDomain(m) ==
    /\ BatchOf(m) = sc_batch
    /\ ModuleTable[m].parallel = "domain"
    /\ \A f \in ScFaces : sc_status[m][f] = "idle"
    /\ sc_status' = [sc_status EXCEPT ![m] = [f \in ScFaces |-> "run"]]
    /\ sc_log' = Append(sc_log, m)
    /\ UNCHANGED <<sc_cfg, sc_decl, sc_batch, sc_store, sc_tick,
                   slideVars, rhVars, tlVars, metVars, driftVars>>

\* run(domain) of m returns
ScFinishDomain(m) ==
    /\ ModuleTable[m].parallel = "domain"
    /\ \A f \in ScFaces : sc_status[m][f] = "run"
    /\ sc_status' = [sc_status EXCEPT ![m] = [f \in ScFaces |-> "done"]]
    /\ sc_store' = [f \in ScFaces |-> sc_store[f] \cup ModuleTable[m].provides]
    /\ UNCHANGED <<sc_cfg, sc_decl, sc_batch, sc_log, sc_tick,
                   slideVars, rhVars, tlVars, metVars, driftVars>>

\* the barrier: every module of the batch has completed on every face
ScBarrier ==
    /\ sc_batch < LastBatch
    /\ \A m \in Modules : BatchOf(m) = sc_batch =>
         \A f \in ScFaces : sc_status[m][f] = "done"
    /\ sc_batch' = sc_batch + 1
    /\ UNCHANGED <<sc_cfg, sc_decl, sc_status, sc_store, sc_log, sc_tick,
                   slideVars, rhVars, tlVars, metVars, driftVars>>

\* the driver: the last batch has completed, the next tick begins
ScNextTick ==
    /\ sc_batch = LastBatch
    /\ \A m \in Modules : \A f \in ScFaces : sc_status[m][f] = "done"
    /\ sc_tick < MaxTime
    /\ sc_tick' = sc_tick + 1
    /\ sc_batch' = 1
    /\ sc_status' = [m \in Modules |-> [f \in ScFaces |-> "idle"]]
    /\ sc_log' = <<>>
    /\ UNCHANGED <<sc_cfg, sc_decl, sc_store, slideVars, rhVars, tlVars, metVars, driftVars>>

NextSched ==
    \/ \E m \in Modules, f \in ScFaces : ScStart(m, f)
    \/ \E m \in Modules, f \in ScFaces : ScFinish(m, f)
    \/ \E m \in Modules : ScStartDomain(m)
    \/ \E m \in Modules : ScFinishDomain(m)
    \/ ScBarrier
    \/ ScNextTick

(***************************************************************************)
(* SnowDrift::compSnowDrift: the erosion of the element stack of one       *)
(* station.  Masses are integers in a unit in which Constants::eps2 = 1,   *)
(* Constants::eps = 4 and the 0.001 of the mass check = 40: the ratios are *)
(* scaled down, the order eps2 < eps < 0.001 < element masses is kept.     *)
(* An element is [M, LRho, soil]: its mass, the product L * Rho of its     *)
(* length and density, and whether theta[SOIL] > 0.  The code changes L by *)
(* -massErode / Rho, that is L * Rho by -massErode.  Indices of Edata are  *)
(* 0-based in the code and 1-based here: EMS[nE - 1] is Xdata.Edata[nE].   *)
(***************************************************************************)
Eps2 == 1       \* Constants::eps2
Eps == 4        \* Constants::eps
MassTol == 40   \* the 0.001 of line 210
SizeMax == 2147483647            \* the greatest size_t of the model
MaxSnowElements == 2             \* snow elements above the soil
ElementMasses == {100, 200}
SoilMass == 200
ForcedMasses == {0, -1, -2, 50, -50, -80, -96, -103, -150, -1000}
VirtualFluxes == {0, 150}
StoredErosionMasses == {0, -20}

MinOf(a, b) == IF b < a THEN b ELSE a            \* std::min(a, b)
\* n - 1 on size_t: 0 - 1 wraps around
SizeMinusOne(n) == IF n = 0 THEN SizeMax ELSE n - 1

\* lines 179-185: the sum of the masses of all elements
totalmass(ems) == SumOver(LAMBDA i : ems[i].M, 1 .. Len(ems))

\* a faulty variant: the mass is forced when the argument is greater than 0
ForcedMassWhenPositive(f) == IF Abs(f) > Eps2 THEN Max(0, f) ELSE 0
\* lines 155-160: massErode = max(0, -forced_massErode) beyond eps2, else 0
ForcedMass(f) == IF Abs(f) > Eps2 THEN Max(0, -f) ELSE 0

\* lines 187-188
CapToTotal(m, t) == IF m > t THEN t ELSE m

\* line 193: massErode >= 0.95 * EMS[nE - 1].M
ErodesWhole(m, M) == 100 * m >= 95 * M

\* lines 190, 241-242: the loop goes on
LoopContinues(m, n) == m > 0 /\ n # 0

\* line 138
no_snow ==
    IF Len(Xdata.Edata) < Xdata.SoilNode + 1 THEN TRUE
    ELSE Xdata.Edata[Len(Xdata.Edata)].soil
\* line 139
no_wind_data == Mdata.vw_drift = "nodata"
\* line 152
windward == ~alpine3d /\ snow_redistribution /\ Xdata.windward
\* line 153: mH > Ground + eps and mH + 0.02 < cH
erosion == snow_erosion /\ Xdata.mH_allows_erosion
\* line 154
RealErosion == windward \/ alpine3d \/ erosion
\* line 255
VirtualErosion == snow_erosion /\ Xdata.ErosionLevel > Xdata.SoilNode

Element(m, lrho, soil) == [M |-> m, LRho |-> lrho, soil |-> soil]

\* the stacks of the model: SoilNode soil elements, snow elements above
\* them; the top snow element may hold a mass that differs from L * Rho
SnowStacks ==
    UNION {[1 .. n -> ElementMasses] : n \in 0 .. MaxSnowElements}
Stack(soilNode, snow, shift) ==
    [i \in 1 .. soilNode + Len(snow) |->
        IF i <= soilNode THEN Element(SoilMass, SoilMass, TRUE)
        ELSE Element(snow[i - soilNode],
                     snow[i - soilNode] + (IF i = soilNode + Len(snow) THEN shift ELSE 0),
                     FALSE)]

InitDriftWith(a3d, redis, eros, ems, soilNode, stored, ww, mh, wind, forced, flux) ==
    /\ alpine3d = a3d
    /\ snow_redistribution = redis
    /\ snow_erosion = eros
    /\ Xdata = [Edata |-> ems, SoilNode |-> soilNode, ErosionMass |-> stored,
                ErosionLevel |-> IF Len(ems) > soilNode THEN Len(ems) - 1 ELSE soilNode,
                windward |-> ww, mH_allows_erosion |-> mh]
    /\ Mdata = [vw_drift |-> wind]
    /\ Sdata = [drift |-> "unset", ms_wind |-> 0]
    /\ forced_massErode = forced
    /\ virtualFlux = flux
    /\ nE = Len(ems)
    /\ massErode = 0
    /\ sd_pc = "call"
    /\ sd_path = "none"
    /\ Xdata0 = Xdata
    /\ sd_taken = 0
    /\ sd_iter = 0
    /\ sd_low = Len(ems)

InitDrift ==
    \E a3d \in BOOLEAN, redis \in BOOLEAN, eros \in BOOLEAN,
       soilNode \in 0 .. 1, snow \in SnowStacks, shift \in {0, -50},
       stored \in StoredErosionMasses, ww \in BOOLEAN, mh \in BOOLEAN,
       wind \in {"nodata", "wind"}, forced \in ForcedMasses,
       flux \in VirtualFluxes :
        /\ shift # 0 => Len(snow) > 0
        \* Xdata.windward is read under SNOW_REDISTRIBUTION only, mH under
        \* SNOW_EROSION only, the stored ErosionMass when the flux is above
        \* eps only
        /\ redis \/ ~ww
        /\ eros \/ ~mh
        /\ flux # 0 \/ stored = 0
        /\ InitDriftWith(a3d, redis, eros, Stack(soilNode, snow, shift), soilNode,
                         stored, ww, mh, wind, forced, flux)

\* SnowDrift is not part of the run
IdleDrift ==
    InitDriftWith(FALSE, FALSE, FALSE, <<>>, 0, 0, FALSE, FALSE, "nodata", 0, 0)

\* lines 140-148: no snow or no wind data
DriftReturn ==
    /\ sd_pc = "call"
    /\ no_snow \/ no_wind_data
    /\ Xdata' = [Xdata EXCEPT !.ErosionMass = 0,
                              !.ErosionLevel = IF no_snow THEN Xdata.SoilNode ELSE @]
    /\ Sdata' = [Sdata EXCEPT !.drift = IF no_snow THEN "zero" ELSE "undefined"]
    /\ sd_pc' = "done"
    /\ sd_path' = "return"
    /\ UNCHANGED <<alpine3d, snow_redistribution, snow_erosion, Mdata,
                   forced_massErode, virtualFlux, nE, massErode, Xdata0, sd_taken,
                   sd_iter, sd_low, slideVars, rhVars, tlVars, metVars, schedVars>>

\* lines 154-190: the real erosion starts
DriftRealErosion ==
    /\ sd_pc = "call"
    /\ ~(no_snow \/ no_wind_data)
    /\ RealErosion
    /\ massErode' = CapToTotal(ForcedMass(forced_massErode), totalmass(Xdata.Edata))
    /\ Xdata' = [Xdata EXCEPT !.ErosionMass = 0]
    /\ sd_pc' = IF massErode' > 0 THEN "loop" ELSE "done"
    /\ sd_path' = "real"
    /\ UNCHANGED <<alpine3d, snow_redistribution, snow_erosion, Mdata, Sdata,
                   forced_massErode, virtualFlux, nE, Xdata0, sd_taken,
                   sd_iter, sd_low, slideVars, rhVars, tlVars, metVars, schedVars>>

\* a faulty variant of the removal: the element count is not decreased
ErodeElementKeepsCount ==
    /\ sd_pc = "loop"
    /\ ErodesWhole(massErode, Xdata.Edata[nE].M)
    /\ Xdata' = [Xdata EXCEPT !.ErosionMass = @ + Xdata.Edata[nE].M]
    /\ massErode' = massErode - Xdata.Edata[nE].M
    /\ sd_taken' = sd_taken + Xdata.Edata[nE].M
    /\ sd_iter' = sd_iter + 1
    /\ sd_low' = MinOf(sd_low, nE - 1)
    /\ sd_pc' = IF LoopContinues(massErode', nE) THEN "loop" ELSE "done"
    /\ UNCHANGED <<alpine3d, snow_redistribution, snow_erosion, Mdata, Sdata,
                   forced_massErode, virtualFlux, nE, sd_path, Xdata0,
                   slideVars, rhVars, tlVars, metVars, schedVars>>

\* lines 193-206, 238-242: the top element is removed whole
ErodeElement ==
    /\ sd_pc = "loop"
    /\ ErodesWhole(massErode, Xdata.Edata[nE].M)
    /\ nE' = nE - 1
    /\ Xdata' = [Xdata EXCEPT
                    !.ErosionMass = @ + Xdata.Edata[nE].M,
                    !.ErosionLevel = MinOf(SizeMinusOne(nE'), @),
                    !.Edata = SubSeq(@, 1, nE')]
    /\ massErode' = massErode - Xdata.Edata[nE].M
    /\ sd_taken' = sd_taken + Xdata.Edata[nE].M
    /\ sd_iter' = sd_iter + 1
    /\ sd_low' = MinOf(sd_low, nE - 1)
    /\ sd_pc' = IF LoopContinues(massErode', nE') THEN "loop" ELSE "done"
    /\ UNCHANGED <<alpine3d, snow_redistribution, snow_erosion, Mdata, Sdata,
                   forced_massErode, virtualFlux, sd_path, Xdata0,
                   slideVars, rhVars, tlVars, metVars, schedVars>>

\* lines 210-216: an inconsistent mass is replaced by L * Rho
RepairedMass(e) == IF Abs(e.LRho - e.M) > MassTol THEN e.LRho ELSE e.M

\* lines 208-231: a part of the top element is taken (with the asserts
\* compiled out, whatever the mass that is left)
ErodePartial ==
    /\ sd_pc = "loop"
    /\ ~ErodesWhole(massErode, Xdata.Edata[nE].M)
    /\ massErode > Eps
    /\ Xdata' = [Xdata EXCEPT
                    !.Edata[nE].M = RepairedMass(Xdata.Edata[nE]) - massErode,
                    !.Edata[nE].LRho = @ - massErode,
                    !.ErosionMass = @ + massErode]
    /\ massErode' = 0
    /\ sd_taken' = sd_taken + massErode
    /\ sd_iter' = sd_iter + 1
    /\ sd_low' = MinOf(sd_low, nE - 1)
    /\ sd_pc' = "done"
    /\ UNCHANGED <<alpine3d, snow_redistribution, snow_erosion, Mdata, Sdata,
                   forced_massErode, virtualFlux, nE, sd_path, Xdata0,
                   slideVars, rhVars, tlVars, metVars, schedVars>>

\* line 228: the assert on the mass that is left fails
ErodePartialAssertFails ==
    /\ sd_pc = "loop"
    /\ ~ErodesWhole(massErode, Xdata.Edata[nE].M)
    /\ massErode > Eps
    /\ RepairedMass(Xdata.Edata[nE]) - massErode < 0
    /\ Xdata' = [Xdata EXCEPT
                    !.Edata[nE].M = RepairedMass(Xdata.Edata[nE]) - massErode,
                    !.Edata[nE].LRho = @ - massErode]
    /\ sd_taken' = sd_taken + massErode
    /\ sd_iter' = sd_iter + 1
    /\ sd_low' = MinOf(sd_low, nE - 1)
    /\ sd_pc' = "abort"
    /\ UNCHANGED <<alpine3d, snow_redistribution, snow_erosion, Mdata, Sdata,
                   forced_massErode, virtualFlux, nE, massErode, sd_path, Xdata0,
                   slideVars, rhVars, tlVars, metVars, schedVars>>

\* lines 233-237: what is left to erode is not above eps
ErodeNothing ==
    /\ sd_pc = "loop"
    /\ ~ErodesWhole(massErode, Xdata.Edata[nE].M)
    /\ massErode <= Eps
    /\ Xdata' = [Xdata EXCEPT !.ErosionMass = 0]
    /\ massErode' = 0
    /\ sd_iter' = sd_iter + 1
    /\ sd_low' = MinOf(sd_low, nE - 1)
    /\ sd_pc' = "done"
    /\ UNCHANGED <<alpine3d, snow_redistribution, snow_erosion, Mdata, Sdata,
                   forced_massErode, virtualFlux, nE, sd_path, Xdata0, sd_taken,
                   slideVars, rhVars, tlVars, metVars, schedVars>>

\* lines 255-276: the virtual erosion at the ErosionLevel marker
DriftVirtualErosion ==
    /\ sd_pc = "call"
    /\ ~(no_snow \/ no_wind_data)
    /\ ~RealErosion
    /\ VirtualErosion
    /\ LET level == Xdata.ErosionLevel
           M == Xdata.Edata[level + 1].M
           withStored == IF Xdata.ErosionMass < -Eps
                         THEN virtualFlux - Xdata.ErosionMass ELSE virtualFlux
           full == withStored > M
       IN  IF virtualFlux > Eps
           THEN /\ Sdata' = [Sdata EXCEPT !.ms_wind = MinOf(withStored, M)]
                /\ Xdata' = [Xdata EXCEPT
                      !.ErosionMass = -(IF full THEN withStored - M ELSE withStored),
                      !.ErosionLevel =
                          Max(Xdata.SoilNode,
                              MinOf(IF full THEN level - 1 ELSE level,
                                      SizeMinusOne(nE)))]
           ELSE /\ Xdata' = [Xdata EXCEPT !.ErosionMass = 0]
                /\ UNCHANGED Sdata
    /\ sd_pc' = "done"
    /\ sd_path' = "virtual"
    /\ UNCHANGED <<alpine3d, snow_redistribution, snow_erosion, Mdata,
                   forced_massErode, virtualFlux, nE, massErode, Xdata0, sd_taken,
                   sd_iter, sd_low, slideVars, rhVars, tlVars, metVars, schedVars>>

\* lines 277-279: neither a real nor a virtual erosion
DriftNoErosion ==
    /\ sd_pc = "call"
    /\ ~(no_snow \/ no_wind_data)
    /\ ~RealErosion
    /\ ~VirtualErosion
    /\ Xdata' = [Xdata EXCEPT !.ErosionMass = 0]
    /\ sd_pc' = "done"
    /\ sd_path' = "no_erosion"
    /\ UNCHANGED <<alpine3d, snow_redistribution, snow_erosion, Mdata, Sdata,
                   forced_massErode, virtualFlux, nE, massErode, Xdata0, sd_taken,
                   sd_iter, sd_low, slideVars, rhVars, tlVars, metVars, schedVars>>

NextDrift ==
    \/ DriftReturn
    \/ DriftRealErosion
    \/ ErodeElement
    \/ ErodePartial
    \/ ErodePartialAssertFails
    \/ ErodeNothing
    \/ DriftVirtualErosion
    \/ DriftNoErosion

(***************************************************************************)
(* Specifications: one component runs, the state of the others stays put   *)
(***************************************************************************)
\* snow_slide::run over one tick
IdleEngine == IdleTlapse /\ IdleMet /\ IdleSched /\ IdleDrift
InitSlideRun == InitSlide /\ IdleRh /\ IdleEngine
SpecSlide == InitSlideRun /\ [][NextSlide]_vars
\* rh_from_obs::run over the faces and the timestamps
InitRhRun == InitRh /\ IdleSlide /\ IdleEngine
SpecRh == InitRhRun /\ [][NextRh]_vars
\* Dist_tlapse::run over the faces of one tick
InitTlapseRun == InitTlapse /\ IdleSlide /\ IdleRh /\ IdleMet /\ IdleSched /\ IdleDrift
SpecTlapse == InitTlapseRun /\ [][NextTlapse]_vars
\* the driver's loop over the timestamps of the window
InitMetRun == InitMet /\ IdleSlide /\ IdleRh /\ IdleTlapse /\ IdleSched /\ IdleDrift
SpecMet == InitMetRun /\ [][NextMet]_vars
\* the scheduler over the batches of the ticks
InitSchedRun == InitSched /\ IdleSlide /\ IdleRh /\ IdleTlapse /\ IdleMet /\ IdleDrift
SpecSched == InitSchedRun /\ [][NextSched]_vars

InitDriftRun ==
    InitDrift /\ IdleSlide /\ IdleRh /\ IdleTlapse /\ IdleMet /\ IdleSched
SpecDrift == InitDriftRun /\ [][NextDrift]_vars

(***************************************************************************)
(* Properties of snow_slide::run, checked under SpecSlide                  *)
(***************************************************************************)
\* a step that is one iteration of the loop; loc' holds its locals
LoopStep == pc = "loop" /\ idx' = idx + 1
\* the iteration took the interior case: excess, no edge, a lower neighbour
InteriorStep == LoopStep /\ loc'.excess /\ ~loc'.edge_flag /\ loc'.w_dem > 0
\* the iteration took the edge case
EdgeStep == LoopStep /\ loc'.excess /\ loc'.edge_flag
\* the iteration took the sink case
SinkStep == LoopStep /\ loc'.excess /\ ~loc'.edge_flag /\ loc'.w_dem = 0
\* the state of face g that snow_slide keeps is the same after the step
FaceUntouched(g) ==
    /\ snowdepthavg_copy'[g] = snowdepthavg_copy[g]
    /\ swe_copy'[g] = swe_copy[g]
    /\ snowdepthavg_vert_copy'[g] = snowdepthavg_vert_copy[g]
    /\ delta_avalanche_snowdepth'[g] = delta_avalanche_snowdepth[g]
    /\ delta_avalanche_mass'[g] = delta_avalanche_mass[g]
\* the variable-store row of face g is the same after the step
RowUntouched(g) ==
    /\ vs_snowdepthavg'[g] = vs_snowdepthavg[g]
    /\ vs_swe'[g] = vs_swe[g]
    /\ vs_delta_avalanche_snowdepth'[g] = vs_delta_avalanche_snowdepth[g]
    /\ vs_delta_avalanche_mass'[g] = vs_delta_avalanche_mass[g]
\* face g has a null or ghost neighbour slot
IsEdgeFace(g) == \E i \in 0 .. 2 : ~IsLocalFace(neighbor(g, i))
\* the mass the step added to the neighbours of face f
MassReceived(f) ==
    SumOver(LAMBDA i : delta_avalanche_mass'[neighbor(f, i)]
                         - delta_avalanche_mass[neighbor(f, i)], 0 .. 2)

\* C1: in the interior case the mass removed from the face, del_swe * A_self,
\* equals the mass added to the delta_avalanche_mass of its neighbours,
\* within the tolerance of 1e-4 m^3.
C1_MassConserved ==
    [][InteriorStep =>
         ~MassBalanceFails(loc'.del_swe * get_area(loc'.face),
                           MassReceived(loc'.face))]_vars
\* an interior face with excess has routed mass to two lower neighbours or more
C1_Witness ==
    /\ loc.excess /\ ~loc.edge_flag /\ loc.routed
    /\ loc.orig_mass > 0
    /\ Cardinality({i \in 1 .. 3 : loc.w[i] > 0}) >= 2

\* C2: processing an edge face with excess deposits nothing: no other face's
\* copies or deltas change, whatever the weights of its neighbours.
C2_EdgeDepositsNothing ==
    [][EdgeStep => \A g \in Faces \ {loc'.face} : FaceUntouched(g)]_vars

\* C3 as stated: no iteration adds to the copies or to the mass delta of a
\* face that has a null or ghost neighbour slot.
C3_EdgeFacesNeverReceive ==
    [][LoopStep =>
         \A g \in Faces :
            IsEdgeFace(g) =>
              /\ snowdepthavg_copy'[g] <= snowdepthavg_copy[g]
              /\ swe_copy'[g] <= swe_copy[g]
              /\ delta_avalanche_mass'[g] <= delta_avalanche_mass[g]]_vars
\* C3 as amended: an iteration adds to the copies or to the mass delta of a
\* face only if that face is a non-ghost neighbour of the processed face and
\* lies below it (edge faces included), so that at the end of the tick
\* delta_avalanche_mass > 0 holds only on non-ghost faces.
C3_OnlyLowerLocalNeighboursReceive ==
    /\ [][LoopStep =>
            \A g \in Faces :
               (\/ snowdepthavg_copy'[g] > snowdepthavg_copy[g]
                \/ swe_copy'[g] > swe_copy[g]
                \/ delta_avalanche_mass'[g] > delta_avalanche_mass[g])
               => /\ ~is_ghost[g]
                  /\ \E i \in 0 .. 2 :
                       /\ neighbor(loc'.face, i) = g
                       /\ cz[g] + snowdepthavg_vert_copy[g]
                            < cz[loc'.face] + snowdepthavg_vert_copy[loc'.face]]_vars
    /\ [](pc = "done" =>
            \A g \in Faces : delta_avalanche_mass[g] > 0 => ~is_ghost[g])
\* an interior face has routed mass to an edge face
C3_Witness ==
    /\ loc.excess /\ ~loc.edge_flag /\ loc.routed
    /\ \E i \in 0 .. 2 :
         /\ loc.w[i + 1] > 0
         /\ IsEdgeFace(neighbor(loc.face, i))
         /\ delta_avalanche_mass[neighbor(loc.face, i)] > 0

\* C4: processing an interior sink (excess, no edge, no lower neighbour)
\* changes no copy, no delta and no variable-store value of any face.
C4_SinkChangesNothing ==
    [][SinkStep => \A g \in Faces : FaceUntouched(g) /\ RowUntouched(g)]_vars
\* an interior face with excess and no lower neighbour has been processed
C4_Witness ==
    /\ loc.excess /\ ~loc.edge_flag /\ loc.w_dem = 0
    /\ loc.del_depth > 0

\* C5: no step of the tick changes a variable-store value, a copy or a delta
\* of a ghost face.
C5_GhostsNeverWritten ==
    [][\A g \in Faces : is_ghost[g] => FaceUntouched(g) /\ RowUntouched(g)]_vars
\* a face with excess and a ghost neighbour below its centroid has routed mass
C5_Witness ==
    /\ loc.excess /\ loc.routed
    /\ \E i \in 0 .. 2 :
         /\ neighbor(loc.face, i) # NULL
         /\ is_ghost[neighbor(loc.face, i)]
         /\ cz[neighbor(loc.face, i)] < cz[loc.face]

\* C6: the faces are processed by descending z_key, and faces of equal
\* z_key by increasing face index.
C6_DeterministicOrder ==
    pc # "start" =>
      \A i, j \in 1 .. Len(sorted_z) :
         i < j =>
           \/ z_key(sorted_z[i]) > z_key(sorted_z[j])
           \/ z_key(sorted_z[i]) = z_key(sorted_z[j]) /\ sorted_z[i] < sorted_z[j]

\* C7: in the interior case the neighbour in slot i receives the share
\* w_i / (w_0 + w_1 + w_2) of the excess, w_i = max(0, z_self - z_i) taken
\* from the vertical copies as they are when the face is processed; a
\* neighbour that is not below the face receives nothing.
SurfaceNow(g) == cz[g] + snowdepthavg_vert_copy[g]
WeightNow(f, i) == Max(0, SurfaceNow(f) - SurfaceNow(neighbor(f, i)))
C7_SharesFollowCurrentHeights ==
    [][InteriorStep =>
         LET f == loc'.face
             sum == WeightNow(f, 0) + WeightNow(f, 1) + WeightNow(f, 2)
         IN  \A i \in 0 .. 2 :
               LET n == neighbor(f, i) IN
               /\ delta_avalanche_mass'[n] - delta_avalanche_mass[n]
                    = MulDiv(loc'.del_swe * get_area(f), WeightNow(f, i), sum)
               /\ snowdepthavg_copy'[n] - snowdepthavg_copy[n]
                    = MulDiv(loc'.del_depth * get_area(f), WeightNow(f, i),
                             sum * get_area(n))
               /\ WeightNow(f, i) = 0 =>
                    /\ delta_avalanche_mass'[n] = delta_avalanche_mass[n]
                    /\ snowdepthavg_copy'[n] = snowdepthavg_copy[n]
                    /\ swe_copy'[n] = swe_copy[n]]_vars
\* face 1 has routed mass in the interior case to face 2, which was processed
\* before it and had lost its own excess by then
C7_Witness ==
    /\ loc.face = 1 /\ loc.excess /\ ~loc.edge_flag /\ loc.routed
    /\ loc.w[1] > 0
    /\ vs_delta_avalanche_mass[2] < 0
    /\ delta_avalanche_mass[2] > vs_delta_avalanche_mass[2]

\* C8: at the end of the tick the variable-store values of the two deltas of
\* every face equal the face's per-face state values.
C8_StoreHoldsFinalDeltas ==
    pc = "done" =>
      \A f \in DomainFaces :
         /\ vs_delta_avalanche_snowdepth[f] = delta_avalanche_snowdepth[f]
         /\ vs_delta_avalanche_mass[f] = delta_avalanche_mass[f]

(***************************************************************************)
(* Properties of rh_from_obs::run, checked under SpecRh                    *)
(***************************************************************************)
\* C9: after rh_from_obs::run on a face, the rh written to the face is a
\* number in [10, 100], whatever the station values and the fitted lapse.
C9_RhInRange ==
    \A f \in rh_done :
       /\ ~face_rh[f].nan
       /\ 10 <= face_rh[f].v
       /\ face_rh[f].v <= 100
\* one face whose rh came out as a NaN and one whose rh came out as a
\* number outside [10, 100] have been written, as 10 and as the nearer bound
C9_Witness ==
    /\ \E f \in rh_done : raw_rh[f].nan /\ face_rh[f] = Num(10)
    /\ \E f \in rh_done :
         /\ ~raw_rh[f].nan
         /\ \/ raw_rh[f].v > 100 /\ face_rh[f] = Num(100)
            \/ raw_rh[f].v < 10 /\ face_rh[f] = Num(10)

\* C10: among the run(face) calls of one timestamp only one computes the
\* fit, and a face that has been written had a fit of its timestamp.
C10_FitOncePerTimestamp ==
    /\ fits <= 1
    /\ rh_done # {} => last_update = posix_time

(***************************************************************************)
(* Properties of the face-parallel modules Dist_tlapse and rh_from_obs     *)
(***************************************************************************)
\* worker w takes a step of rh_from_obs::run on the face wface[w]
RhRunStep(w) ==
    /\ wpc[w] # "idle"
    /\ wpc'[w] # wpc[w] \/ wpending'[w] # wpending[w]
\* worker w executes Dist_tlapse::run on the face tl_face[w]
TlRunStep(w) == tl_pc[w] = "run" /\ tl_pc'[w] = "idle"
\* the stations around face f that report a finite temperature
FiniteStations(f) == {s \in tl_in_radius[f] : tl_stn_t[s].kind = "num"}
\* the temperature of station s at sea level
SeaLevelT(s) == tl_stn_t[s].v + lapse_rate * tl_stn_z[s]
LeastOf(S) == CHOOSE x \in S : \A y \in S : x <= y
GreatestOf(S) == CHOOSE x \in S : \A y \in S : y <= x

\* C11: run(face) of a face-parallel module writes only the row of its own
\* face: a step of rh_from_obs::run or of Dist_tlapse::run on face f leaves
\* the rows of the other faces, the stations and all state shared between
\* the faces (the cached lapse and its timestamp, the lapse rate) unchanged.
C11_RunWritesOnlyItsFace ==
    [][/\ \A w \in Workers : RhRunStep(w) =>
            /\ \A g \in RhFaces \ {wface[w]} : face_rh'[g] = face_rh[g]
            /\ last_update' = last_update
            /\ lapse' = lapse
            /\ stn_obs' = stn_obs /\ stn_z' = stn_z
       /\ \A w \in Workers : TlRunStep(w) =>
            /\ \A g \in TlFaces \ {tl_face[w]} :
                 tl_t'[g] = tl_t[g] /\ tl_t_lapse_rate'[g] = tl_t_lapse_rate[g]
            /\ lapse_rate' = lapse_rate
            /\ tl_stn_t' = tl_stn_t /\ tl_stn_z' = tl_stn_z]_vars

\* C12: a face whose run has returned holds t_lapse_rate = g and a t that is
\* the interpolated sea-level temperature lowered by g * z_face: with one
\* usable station, T_obs + g * (z_station - z_face); a station at z = 0 with
\* T = 10 and g = 0.005 gives 9.5 at z = 100 and 9.0 at z = 200.
C12_LiftInterpolateLower ==
    \A f \in tl_done :
        LET sea == {SeaLevelT(s) : s \in FiniteStations(f)}
            atSea == tl_t[f].v + lapse_rate * tlFaceZ[f]
        IN  /\ tl_t_lapse_rate[f] = TNum(lapse_rate)
            /\ tl_t[f].kind = "num"
            /\ sea # {} => LeastOf(sea) <= atSea /\ atSea <= GreatestOf(sea)
            /\ \A s \in Stations : FiniteStations(f) = {s} =>
                 tl_t[f] = TNum(tl_stn_t[s].v + lapse_rate * (tl_stn_z[s] - tlFaceZ[f]))
            /\ (/\ FiniteStations(f) = {1}
                /\ tl_stn_z[1] = 0
                /\ tl_stn_t[1] = TNum(10 * MilliDeg)
                /\ lapse_rate = 5)
               => tl_t[f] = TNum(IF tlFaceZ[f] = 100 THEN 9500 ELSE 9000)
\* the scenario has run on both faces
C12_Witness ==
    /\ tl_done = TlFaces
    /\ lapse_rate = 5
    /\ \A f \in TlFaces : FiniteStations(f) = {1}
    /\ tl_stn_t[1] = TNum(10 * MilliDeg)
    /\ tl_t = <<TNum(9500), TNum(9000)>>

\* C13: with a lapse rate of 0 and every station around the face reporting
\* the same temperature T*, the face receives exactly T*.
C13_RoundTrip ==
    \A f \in tl_done :
        \A T \in StationTemps :
            (/\ lapse_rate = 0
             /\ T.kind = "num"
             /\ \A s \in tl_in_radius[f] : tl_stn_t[s] = T)
            => tl_t[f] = T
\* two stations of one temperature around a face that has run
C13_Witness ==
    /\ lapse_rate = 0
    /\ 2 \in tl_done
    /\ tl_in_radius[2] = {1, 2}
    /\ tl_stn_t = <<TNum(4 * MilliDeg), TNum(4 * MilliDeg)>>
    /\ tl_t[2] = TNum(4 * MilliDeg)

\* C14: a run uses the stations of finite temperature alone, and a run that
\* finds none fails with insufficient-data and leaves t and t_lapse_rate of
\* the face as they were.
C14_DropsNonFiniteOrFails ==
    [][\A w \in Workers : TlRunStep(w) =>
         LET f == tl_face[w]
             sea == {SeaLevelT(s) : s \in FiniteStations(f)}
             atSea == tl_t'[f].v + lapse_rate * tlFaceZ[f]
         IN  IF FiniteStations(f) = {}
             THEN /\ f \in tl_failed' /\ f \notin tl_done'
                  /\ tl_t'[f] = tl_t[f]
                  /\ tl_t_lapse_rate'[f] = tl_t_lapse_rate[f]
             ELSE /\ f \in tl_done' /\ f \notin tl_failed'
                  /\ tl_t'[f].kind = "num"
                  /\ LeastOf(sea) <= atSea /\ atSea <= GreatestOf(sea)]_vars
\* one run failed on stations that are all non-finite and left the earlier
\* value of the face; another dropped a NaN and used the finite station
C14_Witness ==
    /\ \E f \in tl_failed :
         /\ tl_in_radius[f] # {}
         /\ tl_t[f] = TNum(0) /\ tl_t_lapse_rate[f] = TNum(0)
    /\ \E f \in tl_done :
         /\ \E s \in tl_in_radius[f] : tl_stn_t[s].kind # "num"
         /\ tl_t[f] # TNum(0)

(***************************************************************************)
(* Properties of the met coordinator, checked under SpecMet                *)
(***************************************************************************)
\* a step that is a call of next()
NextCall == md_pc = "ticked" /\ md_pc' # "ticked"
\* a step that is a call of subset()
SubsetCall == md_sub = <<>> /\ md_sub' # <<>>
\* the timestamps start, start + dt, ... that are not past end
Window == {t \in _start_time .. _end_time : (t - _start_time) % _dt = 0}

\* C15: next() advances fully or terminates: with current + dt <= end it
\* moves current to current + dt, refills every station with the filtered
\* values of that timestamp and returns true, otherwise it returns false;
\* current is always one of start, start + dt, ..., end and all stations
\* hold the values of one timestamp, the current one.
C15_NextAdvancesOrTerminates ==
    /\ [][NextCall =>
            IF _current_ts + _dt <= _end_time
            THEN /\ md_ret'
                 /\ _current_ts' = _current_ts + _dt
                 /\ \A i \in MdStations : stn_now'[i] = _current_ts' /\ stn_filtered'[i]
            ELSE ~md_ret']_vars
    /\ [](/\ _current_ts \in Window
          /\ \A i, j \in MdStations : stn_now[i] = stn_now[j]
          /\ \A i \in MdStations : stn_now[i] = _current_ts)
\* next() has advanced at least twice and has then returned false
C15_Witness ==
    /\ md_pc = "ended"
    /\ ~md_ret
    /\ Len(md_ticks) >= 3
    /\ _current_ts > _start_time
    /\ \A i \in MdStations : stn_now[i] = _current_ts

\* C16: subset(s, e) sets start = s, end = e and current = s, and the run
\* after it executes one tick for each of s, s + dt, ..., e, in increasing
\* order: (e - s) / dt + 1 ticks, 3 * (Day / dt) + 1 for a window of 3 days.
C16_SubsetTicks ==
    /\ [][SubsetCall =>
            /\ _start_time' = md_sub'[1]
            /\ _end_time' = md_sub'[2]
            /\ _current_ts' = md_sub'[1]]_vars
    /\ []((md_pc = "ended" /\ md_sub # <<>>) =>
            LET n == (md_sub[2] - md_sub[1]) \div _dt + 1
            IN  /\ md_ticks = [k \in 1 .. n |-> md_sub[1] + (k - 1) * _dt]
                /\ md_sub[2] - md_sub[1] = 3 * Day => Len(md_ticks) = 3 * (Day \div _dt) + 1)
\* a run over a window of three days has ended
C16_Witness ==
    /\ md_pc = "ended"
    /\ md_sub # <<>>
    /\ md_sub[1] > 0
    /\ md_sub[2] - md_sub[1] = 3 * Day
    /\ _dt = 1
    /\ Len(md_ticks) = 7

\* C17: the unified window starts at the latest of the stations' starts and
\* ends at the earliest of their ends, and the time series of every station
\* has a row for every timestamp the coordinator iterates over.
C17_UnifiedWindow ==
    /\ md_sub = <<>> =>
         /\ \A i \in MdStations : obs_start[i] <= _start_time
         /\ \E i \in MdStations : obs_start[i] = _start_time
         /\ \A i \in MdStations : _end_time <= obs_end[i]
         /\ \E i \in MdStations : obs_end[i] = _end_time
    /\ \A i \in MdStations :
         /\ stn_now[i] # Missing
         /\ obs_start[i] <= _current_ts /\ _current_ts <= obs_end[i]
         /\ \A k \in DOMAIN md_ticks :
              obs_start[i] <= md_ticks[k] /\ md_ticks[k] <= obs_end[i]
\* the stations start and end at different times, and the run has ended
C17_Witness ==
    /\ md_pc = "ended"
    /\ md_sub = <<>>
    /\ obs_start[1] # obs_start[2]
    /\ obs_end[1] # obs_end[2]
    /\ md_ticks[1] = _start_time
    /\ md_ticks[Len(md_ticks)] = _end_time

(***************************************************************************)
(* Properties of the scheduler, checked under SpecSched                    *)
(***************************************************************************)
Started(m, f) == sc_status[m][f] # "idle"
Completed(m) == \A f \in ScFaces : sc_status[m][f] = "done"
\* the rank of a module of the model graph
ModuleNamed(n) == CHOOSE m \in Modules : ModuleTable[m].name = n

\* C18: for every edge u -> v of the module graph, u has completed when v
\* starts; A, B, C start in this order whatever the order of declaration,
\* and Dist_tlapse has completed on a face when rh_from_obs starts on it.
C18_TopologicalOrder ==
    /\ \A u, v \in Modules : Edge(u, v) =>
         \A f \in ScFaces : Started(v, f) => Completed(u)
    /\ sc_cfg = "s5" =>
         \A k \in DOMAIN sc_log : sc_log[k] = ModuleNamed(<<"A", "B", "C">>[k])
    /\ sc_cfg = "chm" =>
         \A f \in ScFaces : Started(ModuleNamed("rh_from_obs"), f) =>
             sc_status[ModuleNamed("Dist_tlapse")][f] = "done"
\* C, B, A were declared in this order and have run as A, B, C
C18_Witness ==
    /\ sc_cfg = "s5"
    /\ sc_decl = <<3, 2, 1>>
    /\ sc_log = <<1, 2, 3>>
    /\ \A m \in Modules : Completed(m)

\* C19: no module of a batch starts on any face before every module of the
\* batches before it has completed on every face, and snow_slide runs alone,
\* on the whole domain at once.
C19_BatchBarrier ==
    /\ \A u, m \in Modules : BatchOf(u) < BatchOf(m) =>
         \A f \in ScFaces : Started(m, f) => Completed(u)
    /\ sc_cfg = "chm" =>
         \A f \in ScFaces : sc_status[ModuleNamed("snow_slide")][f] = "run" =>
             /\ \A g \in ScFaces : sc_status[ModuleNamed("snow_slide")][g] = "run"
             /\ \A m \in Modules \ {ModuleNamed("snow_slide")} : Completed(m)
\* snow_slide is running after a batch of two face-parallel modules
C19_Witness ==
    /\ sc_cfg = "chm"
    /\ sc_tick = 1
    /\ sc_status[ModuleNamed("snow_slide")][1] = "run"
    /\ BatchOf(ModuleNamed("rh_from_obs")) = BatchOf(ModuleNamed("snowpack"))
    /\ Completed(ModuleNamed("rh_from_obs"))

\* C20: when run of a module is invoked on a face, every name the module
\* depends on is in the variable store of the face: snowdepthavg and swe on
\* every face when snow_slide starts, t when rh_from_obs starts.
C20_DependsPresent ==
    [][\A m \in Modules, f \in ScFaces :
         (sc_status[m][f] = "idle" /\ sc_status'[m][f] = "run") =>
            /\ ModuleTable[m].depends \subseteq sc_store[f]
            /\ (sc_cfg = "chm" /\ m = ModuleNamed("snow_slide")) =>
                 \A g \in ScFaces : {"snowdepthavg", "swe"} \subseteq sc_store[g]
            /\ (sc_cfg = "chm" /\ m = ModuleNamed("rh_from_obs")) =>
                 "t" \in sc_store[f]]_vars
\* in the first tick snow_slide runs on a store that holds what it reads
C20_Witness ==
    /\ sc_cfg = "chm"
    /\ sc_tick = 1
    /\ sc_status[ModuleNamed("snow_slide")][1] = "run"
    /\ sc_status[ModuleNamed("rh_from_obs")][2] = "done"
    /\ {"snowdepthavg", "swe", "t"} \subseteq sc_store[2]

(***************************************************************************)
(* Properties of the tick: the stations and the module runs                *)
(***************************************************************************)
\* some run(face) of the tick is executing
RunExecuting == \E w \in Workers : wpc[w] # "idle"
\* the step changes what the stations report
StationsChange == stn_obs' # stn_obs \/ stn_z' # stn_z \/ posix_time' # posix_time

\* C21: the station set is changed only by metdata::next(), and next() of a
\* tick completes before any module of the tick runs: no station value and
\* no timestamp changes while a run is executing, and a change leaves every
\* face of the new tick still to run, so all runs of a tick read the values
\* of one timestamp.
C21_StationsFixedDuringRuns ==
    [][/\ RunExecuting => ~StationsChange
       /\ StationsChange =>
            /\ ~RunExecuting
            /\ posix_time' = posix_time + 1
            /\ todo' = RhFaces /\ rh_done' = {}
            /\ \A w \in Workers : wpc'[w] = "idle"]_vars
\* in the second tick one face is done and a run on the other is executing
C21_Witness ==
    /\ posix_time = 2
    /\ rh_done # {}
    /\ RunExecuting

(***************************************************************************)
(* Properties of snow_slide::run: the removal and the vertical copies      *)
(***************************************************************************)
\* C23: the excess of a processed face is removed exactly once: after a face
\* with excess went through the edge case or the interior case, its
\* delta_avalanche_mass is lower by exactly del_swe * A_self and its
\* delta_avalanche_snowdepth by exactly del_depth * A_self, also when the
\* face is an edge face with a lower non-ghost neighbour.
C23_ExcessRemovedOnce ==
    [][(EdgeStep \/ InteriorStep) =>
         LET f == loc'.face
         IN  /\ delta_avalanche_mass'[f]
                   = delta_avalanche_mass[f] - loc'.del_swe * get_area(f)
             /\ delta_avalanche_snowdepth'[f]
                   = delta_avalanche_snowdepth[f] - loc'.del_depth * get_area(f)]_vars

\* C24: after the snapshot and after every face processed, the vertical copy
\* of every face of the domain is its own snowdepthavg_copy divided by
\* max(0.001, cos(its own slope)).
C24_VerticalCopyConsistent ==
    pc # "start" =>
       \A f \in DomainFaces :
          snowdepthavg_vert_copy[f] = Vertical(snowdepthavg_copy[f], CosFloor(f))

(***************************************************************************)
(* Properties of SnowDrift::compSnowDrift                                  *)
(***************************************************************************)
\* the call has returned
DriftDone == sd_pc = "done"
\* forced_massErode forces no erosion: not above eps2, or positive
NotForced == Abs(forced_massErode) <= Eps2 \/ forced_massErode > 0
\* the step enters the real-erosion path
RealErosionStarts == sd_pc = "call" /\ sd_path' = "real"
\* the mass to erode the claim names
MassToErode ==
    IF NotForced THEN 0
    ELSE IF -forced_massErode > totalmass(Xdata.Edata) THEN totalmass(Xdata.Edata)
    ELSE -forced_massErode
\* an iteration of the erosion loop that ran to its end (no assert failed)
DriftLoopStep == sd_pc = "loop" /\ sd_iter' = sd_iter + 1 /\ sd_pc' # "abort"

C25_ErosionMassIsMassTaken ==
    (DriftDone /\ sd_path = "real") =>
        /\ Xdata.ErosionMass = sd_taken
        /\ Xdata.ErosionMass <= totalmass(Xdata0.Edata)

\* C26: the erosion loop terminates: every iteration either removes the top
\* element (nE decreases by one, from 1 at least) or sets the mass to erode
\* to 0, so that there are no more iterations than elements; nE never goes
\* below 0 and no element below index 0 is read.
C26_ErosionLoopTerminates ==
    /\ [][DriftLoopStep =>
            \/ nE >= 1 /\ nE' = nE - 1
            \/ massErode' = 0]_vars
    /\ [](/\ nE >= 0
          /\ sd_low >= 0
          /\ sd_iter <= Len(Xdata0.Edata)
          /\ sd_pc = "loop" => (massErode > 0 /\ nE >= 1))
\* the loop has removed every element of a stack of three, down to nE = 0
C26_Witness ==
    /\ DriftDone
    /\ sd_path = "real"
    /\ Len(Xdata0.Edata) = 3
    /\ sd_iter = 3
    /\ nE = 0
    /\ sd_low = 0
============================================================================
